---- MODULE Spec2Model ----
(***************************************************************************)
(* Model of the HTTP request router of src/main.py (Smart Study Tool).     *)
(*                                                                         *)
(* One request is in flight at a time; the handlers share no state, so a   *)
(* request is followed from its arrival to its response, one step per      *)
(* collaborator call.  The collaborators (functions.py, youtubefunctions,  *)
(* yt_dlp) are the environment: each call returns or raises, the outcome   *)
(* drawn from a small set.  Strings are modelled as strings, f-strings as  *)
(* concatenations.                                                         *)
(***************************************************************************)
EXTENDS Integers, Sequences, FiniteSets, TLC

VARIABLES
    pc,        \* position of the request in its handler, "idle" between requests
    endpoint,  \* the route serving the request in flight
    request,   \* its inputs: file, text (form fields), url (JSON body), video_id (path)
    local,     \* the handler's local variables, by their names in the source
    result,    \* the value a generate-X handler returned to the framework
    calls,     \* history: the collaborator calls of this request, in order
    cause,     \* history: where the failure of this request arose, "none" if none did
    response,  \* the HTTP response: status, detail (error message), body
    prev       \* history: the last summarize-youtube request whose metadata fetch succeeded

vars == <<pc, endpoint, request, local, result, calls, cause, response, prev>>

-----------------------------------------------------------------------------
(* Bounds and value sets                                                    *)

MaxItems == 1      \* longest list the MCQ generation collaborator returns
MaxOptions == 2    \* longest options list of an MCQ item

None == "None"     \* Python's None, and an unbound local

Truthy(v) == v # None /\ v # ""

GenEndpoints ==
    {"flashcards", "mcqs", "mindmap", "learning_path", "sticky_notes", "exam_questions"}

Files == {"f1"}                 \* uploaded files
Texts == {"", "t1", "t2"}       \* values of the text form field
Urls == {"u1", "u2"}            \* values of VideoRequest.url
VideoIds == {"v1", "v2"}        \* identifiers get_video_id resolves a URL to
ExtractedTexts == {"x1"}        \* texts process_uploaded_file extracts
Transcripts == {None, "", "tr1"} \* returns of get_transcript: none, empty, a transcript
Summaries == {"s1", None}       \* returns of the summarizers; None is not a str

\* The message of the exception a collaborator raises.
Msg(fn) == fn \o " failed"

Collaborators ==
    {"process_uploaded_file", "generate_flashcards", "generate_mcqs", "create_mind_map",
     "generate_learning_path", "create_sticky_notes", "generate_exam_questions",
     "get_video_id", "extract_info", "get_transcript", "summarize_transcript",
     "download_audio", "transcribe_audio", "generate_summary"}


\* The generation collaborator of each generate-X endpoint.
Generator(ep) ==
    CASE ep = "flashcards"     -> "generate_flashcards"
      [] ep = "mcqs"           -> "generate_mcqs"
      [] ep = "mindmap"        -> "create_mind_map"
      [] ep = "learning_path"  -> "generate_learning_path"
      [] ep = "sticky_notes"   -> "create_sticky_notes"
      [] ep = "exam_questions" -> "generate_exam_questions"

\* The words after "Error " in the message of each generate-X endpoint's handler.
Doing(ep) ==
    CASE ep = "flashcards"     -> "generating flashcards"
      [] ep = "mcqs"           -> "generating MCQs"
      [] ep = "mindmap"        -> "generating mind map"
      [] ep = "learning_path"  -> "generating learning path"
      [] ep = "sticky_notes"   -> "generating sticky notes"
      [] ep = "exam_questions" -> "generating exam questions"

\* Option lists of an MCQ item: [], ["a"], ["a","b"], ...
OptionLists == { SubSeq(<<"a", "b", "c", "d">>, 1, n) : n \in 0..MaxOptions }

\* The items generate_mcqs may return.  typed says whether the item's fields have
\* the types MCQResponse declares (options: List[str], correct_answer: int, ...);
\* the collaborator is free in the values.
MCQItems ==
    [options : OptionLists, correct_answer : -1..MaxOptions, typed : {TRUE}]
        \cup { [options |-> <<>>, correct_answer |-> 0, typed |-> FALSE] }

RECURSIVE ListsUpTo(_, _)
ListsUpTo(S, n) ==
    IF n = 0 THEN { <<>> }
    ELSE LET shorter == ListsUpTo(S, n - 1)
         IN  shorter \cup { Append(l, x) : l \in { m \in shorter : Len(m) = n - 1 }, x \in S }

\* The items of the other generation collaborators are opaque.
ArtifactItems == { [id |-> "a1", typed |-> TRUE], [id |-> "a1", typed |-> FALSE] }

\* What the generation collaborator of ep may return.
GenResults(ep) ==
    IF ep = "mcqs" THEN ListsUpTo(MCQItems, MaxItems) ELSE ListsUpTo(ArtifactItems, 1)

\* yt_dlp's info dict, as the set of keys it holds; a key's value is fixed.
InfoKeys == {"title", "thumbnail", "duration_string", "uploader", "view_count"}
Infos == { {}, {"title", "uploader"}, InfoKeys }
InfoValue(k) ==
    CASE k = "title"           -> "Some Title"
      [] k = "thumbnail"       -> "https://i.ytimg.com/x.jpg"
      [] k = "duration_string" -> "3:21"
      [] k = "uploader"        -> "Some Channel"
      [] k = "view_count"      -> 7

\* info.get(k, default)
Get(info, k, default) == IF k \in info THEN InfoValue(k) ELSE default

-----------------------------------------------------------------------------
(* Exceptions and responses                                                 *)

PlainException(msg) == [cls |-> "Exception", status_code |-> 0, detail |-> msg]
HTTPException(status_code, detail) ==
    [cls |-> "HTTPException", status_code |-> status_code, detail |-> detail]

\* str(e): Starlette's HTTPException prints as "<status_code>: <detail>".
StrOf(e) ==
    IF e.cls = "HTTPException" THEN ToString(e.status_code) \o ": " \o e.detail
    ELSE e.detail

NoResponse == [status |-> 0, detail |-> "", body |-> <<>>]

\* The framework's response to an exception that leaves a handler.
ErrorResponse(e) ==
    IF e.cls = "HTTPException"
    THEN [status |-> e.status_code, detail |-> e.detail, body |-> <<>>]
    ELSE [status |-> 500, detail |-> "Internal Server Error", body |-> <<>>]

NoLocals ==
    [content |-> None, video_id |-> None, title |-> None, thumbnail |-> None,
     duration |-> None, transcript |-> None, audio_path |-> None,
     transcript_text |-> None, summary |-> None, source |-> None]

NoRequest == [file |-> None, text |-> None, url |-> None, video_id |-> None]

NoPrev ==
    [valid |-> FALSE, url |-> None, calls |-> <<>>, status |-> 0,
     summary |-> None, source |-> None]

Call(fn, arg, out) == Append(calls, [fn |-> fn, arg |-> arg, out |-> out])

\* The request ends with the exception e leaving the handler.
Fail(e, c) ==
    /\ pc' = "done"
    /\ response' = ErrorResponse(e)
    /\ cause' = c

TypeOK ==
    /\ pc \in {"idle", "content", "generate", "serialize", "resolve", "metadata",
               "transcript", "summarize", "download", "transcribe", "gen_summary",
               "respond", "video_info", "done"}
    /\ endpoint \in GenEndpoints \cup {"none", "summarize_youtube", "video_info"}
    /\ response.status \in {0, 200, 400, 500}
    /\ \A i \in 1..Len(calls) : calls[i].fn \in Collaborators

Init ==
    /\ pc = "idle"
    /\ endpoint = "none"
    /\ request = NoRequest
    /\ local = NoLocals
    /\ result = <<>>
    /\ calls = <<>>
    /\ cause = "none"
    /\ response = NoResponse
    /\ prev = NoPrev

-----------------------------------------------------------------------------
(* Arrival of a request                                                     *)

\* POST /api/generate-X with the optional form fields file and text.
ReceiveGenerate ==
    /\ pc = "idle"
    /\ \E ep \in GenEndpoints, f \in Files \cup {None}, t \in Texts \cup {None} :
          /\ endpoint' = ep
          /\ request' = [NoRequest EXCEPT !.file = f, !.text = t]
    /\ pc' = "content"
    /\ UNCHANGED <<local, result, calls, cause, response, prev>>

\* POST /api/summarize-youtube with the JSON body {url}.
ReceiveSummarize ==
    /\ pc = "idle"
    /\ \E u \in Urls : request' = [NoRequest EXCEPT !.url = u]
    /\ endpoint' = "summarize_youtube"
    /\ pc' = "resolve"
    /\ UNCHANGED <<local, result, calls, cause, response, prev>>

\* GET /api/video-info/{video_id}.
ReceiveVideoInfo ==
    /\ pc = "idle"
    /\ \E v \in VideoIds : request' = [NoRequest EXCEPT !.video_id = v]
    /\ endpoint' = "video_info"
    /\ pc' = "video_info"
    /\ UNCHANGED <<local, result, calls, cause, response, prev>>

-----------------------------------------------------------------------------
(* The generate-X handlers                                                  *)

\* A catch-all that drops the underlying message.
GenExcept_noCause(ep, e) == HTTPException(500, "Error " \o Doing(ep))

\* The handler's catch-all: except Exception as e: raise HTTPException(500, ...).
\* HTTPException is an Exception, so the handler's own 400 is caught as well.
GenExcept(ep, e) == HTTPException(500, "Error " \o Doing(ep) \o ": " \o StrOf(e))

\* The branch on the text is lost: a text-only request counts as empty.
ChooseSource_noText(file, text) ==
    IF file # None THEN "file" ELSE "missing"

\* The text is looked at before the file.
ChooseSource_textFirst(file, text) ==
    IF Truthy(text) THEN "text"
    ELSE IF file # None THEN "file"
    ELSE "missing"

\* if file: ... elif text: ... else: ...
ChooseSource(file, text) ==
    IF file # None THEN "file"
    ELSE IF Truthy(text) THEN "text"
    ELSE "missing"

\* The first half of the try block: content from the file, from the text, or a 400.
ContentStep(ep) ==
    /\ pc = "content"
    /\ endpoint = ep
    /\ LET src == ChooseSource(request.file, request.text) IN
       \/ /\ src = "file"
          /\ \E x \in ExtractedTexts :
                /\ local' = [local EXCEPT !.content = x]
                /\ calls' = Call("process_uploaded_file", request.file, x)
          /\ pc' = "generate"
          /\ UNCHANGED <<cause, response>>
       \/ /\ src = "file"
          /\ calls' = Call("process_uploaded_file", request.file, "raise")
          /\ Fail(GenExcept(ep, PlainException(Msg("process_uploaded_file"))),
                  "process_uploaded_file")
          /\ UNCHANGED local
       \/ /\ src = "text"
          /\ local' = [local EXCEPT !.content = request.text]
          /\ pc' = "generate"
          /\ UNCHANGED <<calls, cause, response>>
       \/ /\ src = "missing"
          /\ Fail(GenExcept(ep, HTTPException(400, "Please provide either a file or text")),
                  "missing_input")
          /\ UNCHANGED <<local, calls>>
    /\ UNCHANGED <<endpoint, request, result, prev>>

\* The second half: await the generation collaborator and return what it returns.
GenerationStep(ep) ==
    /\ pc = "generate"
    /\ endpoint = ep
    /\ \/ /\ \E r \in GenResults(ep) : result' = r
          /\ calls' = Call(Generator(ep), local.content, "return")
          /\ pc' = "serialize"
          /\ UNCHANGED <<cause, response>>
       \/ /\ calls' = Call(Generator(ep), local.content, "raise")
          /\ Fail(GenExcept(ep, PlainException(Msg(Generator(ep)))), Generator(ep))
          /\ UNCHANGED result
    /\ UNCHANGED <<endpoint, request, local, prev>>

\* response_model validation checks the declared field types of every item.
Validates(r) == \A i \in 1..Len(r) : r[i].typed

\* A serialisation that loses the first item.
Serialize_dropFirst(ep, r) ==
    IF r = <<>> THEN <<>>
    ELSE [i \in 1..(Len(r) - 1) |->
             [options |-> r[i + 1].options, correct_answer |-> r[i + 1].correct_answer]]

\* The body the framework serialises from a validated return value: every item
\* in its place, reduced to the fields the response model declares.
Serialize(ep, r) ==
    IF ep = "mcqs"
    THEN [i \in 1..Len(r) |->
             [options |-> r[i].options, correct_answer |-> r[i].correct_answer]]
    ELSE [i \in 1..Len(r) |-> [id |-> r[i].id]]

\* The framework validates the handler's return value against response_model,
\* after the handler has returned: a mismatch is no longer inside its try.
SerializeStep(ep) ==
    /\ pc = "serialize"
    /\ endpoint = ep
    /\ IF Validates(result)
       THEN /\ response' = [status |-> 200, detail |-> "", body |-> Serialize(ep, result)]
            /\ cause' = cause
       ELSE /\ response' = ErrorResponse(PlainException("ResponseValidationError"))
            /\ cause' = "response_validation"
    /\ pc' = "done"
    /\ UNCHANGED <<endpoint, request, local, result, calls, prev>>

GenerateX(ep) == ContentStep(ep) \/ GenerationStep(ep) \/ SerializeStep(ep)

create_flashcards == GenerateX("flashcards")
create_mcqs == GenerateX("mcqs")
create_mindmap == GenerateX("mindmap")
create_learning_path == GenerateX("learning_path")
create_smart_sticky_notes == GenerateX("sticky_notes")
create_exam_questions == GenerateX("exam_questions")

-----------------------------------------------------------------------------
(* summarize_youtube_video                                                  *)

\* Outer handlers without "except HTTPException: raise".
YtExcept_wrapAll(e) == HTTPException(500, "Error processing video: " \o StrOf(e))

\* The outer handlers: except HTTPException: raise / except Exception as e: raise 500.
YtExcept(e) ==
    IF e.cls = "HTTPException" THEN e
    ELSE HTTPException(500, "Error processing video: " \o StrOf(e))

\* An audio handler that drops the underlying message.
AudioExcept_noCause(e) == HTTPException(500, "Audio processing failed")

\* The handler of the audio branch's own try.
AudioExcept(e) == HTTPException(500, "Audio processing failed: " \o StrOf(e))

\* f'https://img.youtube.com/vi/{video_id}/maxresdefault.jpg'
DefaultThumbnail(video_id) ==
    "https://img.youtube.com/vi/" \o video_id \o "/maxresdefault.jpg"

\* video_id = get_video_id(video_url); if not video_id: raise 400.
yt_resolve ==
    /\ pc = "resolve"
    /\ endpoint = "summarize_youtube"
    /\ \/ \E v \in VideoIds \cup {None, ""} :
             /\ calls' = Call("get_video_id", request.url, v)
             /\ local' = [local EXCEPT !.video_id = v]
             /\ IF ~Truthy(v)
                THEN Fail(YtExcept(HTTPException(400, "Invalid YouTube URL")), "invalid_url")
                ELSE /\ pc' = "metadata"
                     /\ UNCHANGED <<cause, response>>
       \/ /\ calls' = Call("get_video_id", request.url, "raise")
          /\ Fail(YtExcept(PlainException(Msg("get_video_id"))), "get_video_id")
          /\ UNCHANGED local
    /\ UNCHANGED <<endpoint, request, result, prev>>

\* A metadata fetch without its own try: the failure reaches the outer handlers.
yt_metadata_propagate ==
    /\ pc = "metadata"
    /\ endpoint = "summarize_youtube"
    /\ \/ /\ \E info \in Infos :
                /\ calls' = Call("extract_info", request.url, "return")
                /\ local' = [local EXCEPT
                      !.title = Get(info, "title", "YouTube Video"),
                      !.thumbnail = Get(info, "thumbnail", DefaultThumbnail(local.video_id)),
                      !.duration = Get(info, "duration_string", "Unknown")]
          /\ pc' = "transcript"
          /\ UNCHANGED <<cause, response>>
       \/ /\ calls' = Call("extract_info", request.url, "raise")
          /\ Fail(YtExcept(PlainException(Msg("extract_info"))), "extract_info")
          /\ UNCHANGED local
    /\ UNCHANGED <<endpoint, request, result, prev>>

\* The best-effort metadata fetch: a bare except substitutes the defaults.
yt_metadata ==
    /\ pc = "metadata"
    /\ endpoint = "summarize_youtube"
    /\ \/ \E info \in Infos :
             /\ calls' = Call("extract_info", request.url, "return")
             /\ local' = [local EXCEPT
                   !.title = Get(info, "title", "YouTube Video"),
                   !.thumbnail = Get(info, "thumbnail", DefaultThumbnail(local.video_id)),
                   !.duration = Get(info, "duration_string", "Unknown")]
       \/ /\ calls' = Call("extract_info", request.url, "raise")
          /\ local' = [local EXCEPT
                !.title = "YouTube Video",
                !.thumbnail = DefaultThumbnail(local.video_id),
                !.duration = "Unknown"]
    /\ pc' = "transcript"
    /\ UNCHANGED <<endpoint, request, result, cause, response, prev>>

\* "if transcript is not None": an empty transcript counts as a transcript.
SourceBranch_notNone(transcript) == IF transcript # None THEN "summarize" ELSE "download"

\* if transcript: ... else: ...
SourceBranch(transcript) == IF Truthy(transcript) THEN "summarize" ELSE "download"

\* A transcript step that falls back to the audio when get_transcript raises.
yt_transcript_fallback ==
    /\ pc = "transcript"
    /\ endpoint = "summarize_youtube"
    /\ \/ \E t \in Transcripts :
             /\ calls' = Call("get_transcript", local.video_id, t)
             /\ local' = [local EXCEPT !.transcript = t]
             /\ pc' = SourceBranch(t)
       \/ /\ calls' = Call("get_transcript", local.video_id, "raise")
          /\ pc' = "download"
          /\ UNCHANGED local
    /\ UNCHANGED <<endpoint, request, result, cause, response, prev>>

\* transcript = get_transcript(video_id), outside the audio branch's try.
yt_transcript ==
    /\ pc = "transcript"
    /\ endpoint = "summarize_youtube"
    /\ \/ \E t \in Transcripts :
             /\ calls' = Call("get_transcript", local.video_id, t)
             /\ local' = [local EXCEPT !.transcript = t]
             /\ pc' = SourceBranch(t)
             /\ UNCHANGED <<cause, response>>
       \/ /\ calls' = Call("get_transcript", local.video_id, "raise")
          /\ Fail(YtExcept(PlainException(Msg("get_transcript"))), "get_transcript")
          /\ UNCHANGED local
    /\ UNCHANGED <<endpoint, request, result, prev>>

\* summary = summarize_transcript(transcript); source = "transcript"
yt_summarize ==
    /\ pc = "summarize"
    /\ endpoint = "summarize_youtube"
    /\ \/ \E s \in Summaries :
             /\ calls' = Call("summarize_transcript", local.transcript, s)
             /\ local' = [local EXCEPT !.summary = s, !.source = "transcript"]
             /\ pc' = "respond"
             /\ UNCHANGED <<cause, response>>
       \/ /\ calls' = Call("summarize_transcript", local.transcript, "raise")
          /\ Fail(YtExcept(PlainException(Msg("summarize_transcript"))),
                  "summarize_transcript")
          /\ UNCHANGED local
    /\ UNCHANGED <<endpoint, request, result, prev>>

\* audio_path = download_audio(video_url), inside the audio branch's try.
yt_download ==
    /\ pc = "download"
    /\ endpoint = "summarize_youtube"
    /\ \/ /\ calls' = Call("download_audio", request.url, "audio1")
          /\ local' = [local EXCEPT !.audio_path = "audio1"]
          /\ pc' = "transcribe"
          /\ UNCHANGED <<cause, response>>
       \/ /\ calls' = Call("download_audio", request.url, "raise")
          /\ Fail(YtExcept(AudioExcept(PlainException(Msg("download_audio")))),
                  "download_audio")
          /\ UNCHANGED local
    /\ UNCHANGED <<endpoint, request, result, prev>>

\* transcript_text = transcribe_audio(audio_path)
yt_transcribe ==
    /\ pc = "transcribe"
    /\ endpoint = "summarize_youtube"
    /\ \/ /\ calls' = Call("transcribe_audio", local.audio_path, "spoken1")
          /\ local' = [local EXCEPT !.transcript_text = "spoken1"]
          /\ pc' = "gen_summary"
          /\ UNCHANGED <<cause, response>>
       \/ /\ calls' = Call("transcribe_audio", local.audio_path, "raise")
          /\ Fail(YtExcept(AudioExcept(PlainException(Msg("transcribe_audio")))),
                  "transcribe_audio")
          /\ UNCHANGED local
    /\ UNCHANGED <<endpoint, request, result, prev>>

\* summary = generate_summary(transcript_text); source = "audio"
yt_generate_summary ==
    /\ pc = "gen_summary"
    /\ endpoint = "summarize_youtube"
    /\ \/ \E s \in Summaries :
             /\ calls' = Call("generate_summary", local.transcript_text, s)
             /\ local' = [local EXCEPT !.summary = s, !.source = "audio"]
             /\ pc' = "respond"
             /\ UNCHANGED <<cause, response>>
       \/ /\ calls' = Call("generate_summary", local.transcript_text, "raise")
          /\ Fail(YtExcept(AudioExcept(PlainException(Msg("generate_summary")))),
                  "generate_summary")
          /\ UNCHANGED local
    /\ UNCHANGED <<endpoint, request, result, prev>>

\* return VideoSummaryResponse(...): the model validates its fields (summary: str),
\* still inside the outer try.
yt_respond ==
    /\ pc = "respond"
    /\ endpoint = "summarize_youtube"
    /\ IF local.summary # None
       THEN /\ response' =
                 [status |-> 200, detail |-> "",
                  body |-> <<[video_id |-> local.video_id, title |-> local.title,
                              thumbnail |-> local.thumbnail, summary |-> local.summary,
                              source |-> local.source, duration |-> local.duration]>>]
            /\ pc' = "done"
            /\ cause' = cause
       ELSE Fail(YtExcept(PlainException("ValidationError")), "response_validation")
    /\ UNCHANGED <<endpoint, request, local, result, calls, prev>>

summarize_youtube_video ==
    \/ yt_resolve \/ yt_metadata \/ yt_transcript \/ yt_summarize
    \/ yt_download \/ yt_transcribe \/ yt_generate_summary \/ yt_respond

-----------------------------------------------------------------------------
(* get_video_info                                                           *)

get_video_info ==
    /\ pc = "video_info"
    /\ endpoint = "video_info"
    /\ LET video_url == "https://www.youtube.com/watch?v=" \o request.video_id IN
       \/ \E info \in Infos :
             /\ calls' = Call("extract_info", video_url, "return")
             /\ response' =
                  [status |-> 200, detail |-> "",
                   body |-> <<[video_id |-> request.video_id,
                               title |-> Get(info, "title", "YouTube Video"),
                               thumbnail |-> Get(info, "thumbnail",
                                                 DefaultThumbnail(request.video_id)),
                               duration |-> Get(info, "duration_string", "Unknown"),
                               channel |-> Get(info, "uploader", "Unknown Channel"),
                               view_count |-> Get(info, "view_count", 0)]>>]
             /\ pc' = "done"
             /\ cause' = cause
       \/ /\ calls' = Call("extract_info", video_url, "raise")
          /\ Fail(HTTPException(500, "Error fetching video info: "
                                       \o StrOf(PlainException(Msg("extract_info")))),
                  "extract_info")
    /\ UNCHANGED <<endpoint, request, local, result, prev>>

-----------------------------------------------------------------------------
(* The response is sent                                                     *)

\* The calls of a request other than the metadata fetch.
NonMeta(cs) == SelectSeq(cs, LAMBDA c : c.fn # "extract_info")

MetaFailed(cs) == \E i \in 1..Len(cs) : cs[i].fn = "extract_info" /\ cs[i].out = "raise"
MetaFetched(cs) == \E i \in 1..Len(cs) : cs[i].fn = "extract_info" /\ cs[i].out = "return"

\* The summary and source fields of a response; None when it has no body.
SummaryOf(r) == IF r.body = <<>> THEN None ELSE r.body[1].summary
SourceOf(r) == IF r.body = <<>> THEN None ELSE r.body[1].source

\* The response leaves; nothing of the request is kept but the history prev.
Complete ==
    /\ pc = "done"
    /\ prev' = IF endpoint = "summarize_youtube" /\ MetaFetched(calls)
               THEN [valid |-> TRUE, url |-> request.url, calls |-> NonMeta(calls),
                     status |-> response.status, summary |-> SummaryOf(response),
                     source |-> SourceOf(response)]
               ELSE prev
    /\ pc' = "idle"
    /\ endpoint' = "none"
    /\ request' = NoRequest
    /\ local' = NoLocals
    /\ result' = <<>>
    /\ calls' = <<>>
    /\ cause' = "none"
    /\ response' = NoResponse

Next ==
    \/ ReceiveGenerate \/ ReceiveSummarize \/ ReceiveVideoInfo
    \/ create_flashcards \/ create_mcqs \/ create_mindmap
    \/ create_learning_path \/ create_smart_sticky_notes \/ create_exam_questions
    \/ summarize_youtube_video
    \/ get_video_info
    \/ Complete

Spec == Init /\ [][Next]_vars

-----------------------------------------------------------------------------
(* Properties                                                               *)

Called(fn) == \E i \in 1..Len(calls) : calls[i].fn = fn
CalledWith(fn, arg) == \E i \in 1..Len(calls) : calls[i].fn = fn /\ calls[i].arg = arg
Returned(fn, outs) == \E i \in 1..Len(calls) : calls[i].fn = fn /\ calls[i].out \in outs
Raised(fn) == Returned(fn, {"raise"})

StartsWith(str, p) == Len(str) >= Len(p) /\ SubSeq(str, 1, Len(p)) = p
EndsWith(str, p) ==
    Len(str) >= Len(p) /\ SubSeq(str, Len(str) - Len(p) + 1, Len(str)) = p

ClientError(r) == r.status \in 400..499
ServerError(r) == r.status \in 500..599

GenDone == pc = "done" /\ endpoint \in GenEndpoints
YtDone == pc = "done" /\ endpoint = "summarize_youtube"

AudioFns == {"download_audio", "transcribe_audio", "generate_summary"}
AudioCalls == SelectSeq(calls, LAMBDA c : c.fn \in AudioFns)

\* C1: a generate-X request with neither file nor text ends with a 4xx response,
\* and neither the extraction nor the generation collaborator is invoked.
C1_MissingInputIsClientError ==
    (GenDone /\ request.file = None /\ request.text = None)
        => /\ ClientError(response)
           /\ ~Called("process_uploaded_file")
           /\ ~Called(Generator(endpoint))

\* C2, as stated: a generate-X request with a text and no file never invokes the
\* extraction collaborator and invokes the generation collaborator with exactly the
\* text, for every text value.
C2_AnyTextReachesGenerator ==
    (GenDone /\ request.file = None /\ request.text # None)
        => /\ ~Called("process_uploaded_file")
           /\ CalledWith(Generator(endpoint), request.text)

\* C2, amended: a generate-X request with a non-empty text and no file never
\* invokes the extraction collaborator, and its one collaborator call is the
\* generation collaborator with exactly the text; with an empty text and no file
\* no collaborator is invoked at all.
C2_NonEmptyTextReachesGenerator ==
    /\ (GenDone /\ request.file = None /\ request.text = "") => calls = <<>>
    /\ (GenDone /\ request.file = None /\ Truthy(request.text))
        => /\ ~Called("process_uploaded_file")
           /\ Len(calls) = 1
           /\ calls[1].fn = Generator(endpoint)
           /\ calls[1].arg = request.text
           /\ cause # "missing_input"

C2_Witness ==
    /\ GenDone /\ endpoint = "learning_path"
    /\ request.file = None /\ request.text = "t2"
    /\ CalledWith("generate_learning_path", "t2")
    /\ response.status = 200

\* The URL was not resolved: get_video_id returned no identifier.
UrlUnresolved == Returned("get_video_id", {None, ""})

\* C3: a summarize-youtube request whose URL resolves to no identifier ends with a
\* 4xx response, and no metadata, transcript, audio or summarization collaborator
\* is invoked.
C3_InvalidUrlIsClientError ==
    (endpoint = "summarize_youtube" /\ UrlUnresolved)
        => /\ pc = "done"
           /\ ClientError(response)
           /\ ~ServerError(response)
           /\ \A fn \in {"extract_info", "get_transcript", "summarize_transcript"}
                          \cup AudioFns : ~Called(fn)

C3_Witness ==
    /\ YtDone /\ UrlUnresolved
    /\ response.status = 400 /\ response.detail = "Invalid YouTube URL"
    /\ Len(calls) = 1

\* What get_transcript returns when there is a transcript, and when there is none.
SomeTranscript == { t \in Transcripts : t \notin {None, ""} }
NoTranscript == {None, ""}

\* C4: a successful summarize-youtube response has source "transcript" exactly when
\* get_transcript returned a transcript, and "audio" exactly when it returned none
\* and download, transcription and summarization succeeded; no audio collaborator
\* is invoked once a transcript was returned.
C4_SourceFollowsTranscript ==
    /\ (YtDone /\ response.status = 200)
          => /\ SourceOf(response) \in {"transcript", "audio"}
             /\ SourceOf(response) = "transcript" <=> Returned("get_transcript", SomeTranscript)
             /\ SourceOf(response) = "audio"
                   <=> /\ Returned("get_transcript", NoTranscript)
                       /\ Returned("download_audio", {"audio1"})
                       /\ Returned("transcribe_audio", {"spoken1"})
                       /\ Returned("generate_summary", Summaries \ {None})
    /\ Returned("get_transcript", SomeTranscript) => AudioCalls = <<>>

C4_Witness ==
    /\ YtDone /\ response.status = 200
    /\ SourceOf(response) = "audio"
    /\ Returned("get_transcript", {None})
    /\ Len(AudioCalls) = 3
    /\ ~Called("summarize_transcript")

\* C5: a failure of the metadata fetch never aborts a summarize-youtube request nor
\* changes its outcome: the transcript step still runs, the defaults are
\* substituted, and status, summary and source are those of the request with the
\* same URL and the same other collaborator outcomes whose metadata fetch succeeded.
C5_MetadataFailureAbsorbed ==
    (endpoint = "summarize_youtube" /\ MetaFailed(calls))
        => /\ cause # "extract_info"
           /\ pc = "done" => Called("get_transcript")
           /\ local.title = "YouTube Video"
           /\ local.thumbnail = DefaultThumbnail(local.video_id)
           /\ local.duration = "Unknown"
           /\ (pc = "done" /\ response.status = 200)
                 => /\ response.body[1].title = "YouTube Video"
                    /\ response.body[1].thumbnail
                          = "https://img.youtube.com/vi/" \o response.body[1].video_id
                               \o "/maxresdefault.jpg"
                    /\ response.body[1].duration = "Unknown"
           /\ (pc = "done" /\ prev.valid /\ prev.url = request.url
                  /\ prev.calls = NonMeta(calls))
                 => /\ response.status = prev.status
                    /\ SummaryOf(response) = prev.summary
                    /\ SourceOf(response) = prev.source

C5_Witness ==
    /\ YtDone /\ MetaFailed(calls)
    /\ prev.valid /\ prev.url = request.url /\ prev.calls = NonMeta(calls)
    /\ response.status = 200 /\ prev.status = 200
    /\ SourceOf(response) = "audio"

\* The failures C6 lists: extraction, generation, transcript, download,
\* transcription, summarization, video-info.
ListedFailures ==
    {"process_uploaded_file"} \cup { Generator(ep) : ep \in GenEndpoints }
        \cup {"get_transcript", "summarize_transcript", "extract_info"} \cup AudioFns

\* "Error <doing X>: <underlying message>"
ErrorDoingForm(detail, msg) == StartsWith(detail, "Error ") /\ EndsWith(detail, ": " \o msg)

\* C6, as stated: an error response is 4xx only for a missing input or an invalid
\* URL, and every other listed failure is a 5xx "Error <doing X>: <underlying message>".
C6_UniformEnvelope ==
    (pc = "done" /\ cause # "none")
        => /\ ClientError(response) => cause \in {"missing_input", "invalid_url"}
           /\ cause \in ListedFailures
                 => ServerError(response) /\ ErrorDoingForm(response.detail, Msg(cause))

\* C6, amended: as stated of the failures a collaborator raises, but a failure in
\* the audio fallback (download, transcription, summarization of the
\* transcription) is a 5xx "Audio processing failed: <underlying message>".
C6_EnvelopeButAudio ==
    (pc = "done" /\ cause # "none")
        => /\ ClientError(response) => cause \in {"missing_input", "invalid_url"}
           /\ cause \in (ListedFailures \cup {"get_video_id"}) \ AudioFns
                 => ServerError(response) /\ ErrorDoingForm(response.detail, Msg(cause))
           /\ cause \in AudioFns
                 => /\ ServerError(response)
                    /\ response.detail = "Audio processing failed: " \o Msg(cause)

C6_Witness ==
    /\ YtDone /\ cause = "download_audio"
    /\ response.status = 500
    /\ response.detail = "Audio processing failed: download_audio failed"

IsPrefix(a, b) == Len(a) <= Len(b) /\ \A i \in 1..Len(a) : a[i] = b[i]

\* C7: without a transcript the audio branch calls download_audio, transcribe_audio
\* and generate_summary in that order, each at most once, each on the result of
\* the one before; a failure of any is the branch's last call and ends the request
\* with an empty-bodied 5xx whose message wraps the cause's message.
C7_AudioBranchFailsFast ==
    /\ IsPrefix([i \in 1..Len(AudioCalls) |-> AudioCalls[i].fn],
                <<"download_audio", "transcribe_audio", "generate_summary">>)
    /\ (YtDone /\ Returned("get_transcript", {None, ""})) => Called("download_audio")
    /\ \A i \in 1..Len(AudioCalls) :
          /\ i > 1 => AudioCalls[i].arg = AudioCalls[i - 1].out
          /\ AudioCalls[i].out = "raise"
                => /\ i = Len(AudioCalls)
                   /\ pc = "done"
                   /\ ServerError(response)
                   /\ response.body = <<>>
                   /\ EndsWith(response.detail, ": " \o Msg(AudioCalls[i].fn))

C7_Witness ==
    /\ YtDone /\ Raised("generate_summary")
    /\ Len(AudioCalls) = 3
    /\ response.status = 500 /\ response.body = <<>>

InRange(item) == 0 <= item.correct_answer /\ item.correct_answer < Len(item.options)

McqDone == pc = "done" /\ endpoint = "mcqs" /\ response.status = 200

C9_FileTakesPrecedence ==
    (endpoint \in GenEndpoints /\ request.file # None /\ request.text # None)
        => /\ cause # "missing_input"
           /\ ~ClientError(response)
           /\ pc \in {"generate", "serialize", "done"}
                 => /\ Len(calls) >= 1
                    /\ calls[1].fn = "process_uploaded_file"
                    /\ calls[1].arg = request.file
           /\ \A i \in 1..Len(calls) :
                 /\ calls[i].arg # request.text
                 /\ calls[i].fn = Generator(endpoint)
                       => /\ i = 2
                          /\ calls[1].out \in ExtractedTexts
                          /\ calls[i].arg = calls[1].out

C9_Witness ==
    /\ GenDone /\ endpoint = "mindmap"
    /\ request.file = "f1" /\ request.text = "t1"
    /\ CalledWith("process_uploaded_file", "f1")
    /\ CalledWith("create_mind_map", "x1")
    /\ response.status = 200

\* C10: the audio fallback is entered only when get_transcript returns an empty or
\* absent result; when get_transcript or summarize_transcript raises, no audio
\* collaborator is invoked and the request ends with a 5xx
\* "Error processing video: <cause>".
C10_NoFallbackOnException ==
    /\ AudioCalls # <<>> => Returned("get_transcript", {None, ""})
    /\ \A fn \in {"get_transcript", "summarize_transcript"} :
          (endpoint = "summarize_youtube" /\ Raised(fn))
              => /\ AudioCalls = <<>>
                 /\ pc = "done"
                 /\ response.status = 500
                 /\ response.detail = "Error processing video: " \o Msg(fn)

C10_Witness ==
    /\ YtDone /\ Raised("get_transcript")
    /\ AudioCalls = <<>>
    /\ response.status = 500
    /\ response.detail = "Error processing video: get_transcript failed"

====
